---- MODULE Spec2Model ----
(***************************************************************************)
(* Model of Temper (src/temper.js): discovery of an installed template     *)
(* engine for a file extension, the engine require cache, and the          *)
(* per-engine compile dispatch.                                            *)
(*                                                                         *)
(* Strings that the code takes apart (file paths, extensions) are          *)
(* sequences of one-character strings; module names are plain strings.     *)
(***************************************************************************)
EXTENDS Integers, Sequences, FiniteSets, TLC

\* ------------------------------------------------------------------ bounds
\* Cap on the number of node require() acquisitions in one behaviour.
MaxAttempts == 4

\* ------------------------------------------------------------ program data
EJS == <<".", "e", "j", "s">>
JADE == <<".", "j", "a", "d", "e">>
MUSTACHE == <<".", "m", "u", "s", "t", "a", "c", "h", "e">>

\* Temper.prototype.supported
supported ==
  (EJS :> <<"ejs">>) @@ (JADE :> <<"jade">>)
    @@ (MUSTACHE :> <<"hogan.js", "mustache", "handlebars">>)

\* The case labels of the switch in compile.
DispatchSet == {"hogan.js", "handlebars", "ejs", "jade"}

\* Module names that callers pass: every registry candidate ("mustache" is
\* the one that is not a case of the switch).
Engines == {"ejs", "jade", "hogan.js", "mustache", "handlebars"}

\* File names passed to discover.
Files ==
  { <<"a">> \o EJS, <<"a">> \o JADE, <<"a">> \o MUSTACHE,
    <<"a", ".", "E", "J", "S">>, <<"a", ".", "t", "x", "t">>,
    EJS, <<"v", ".", "d", "/", "a">> }

Templates == {"tpl"}
Names == {"greet"}

\* Template sources and data objects of the rendering runs.
RenderTemplates == {"tpl", "tpl2"}
Data == {"data1", "data2"}

\* --------------------------------------------------------------- the state
VARIABLES
  disk,       \* modules node's require() can acquire now (the environment)
  required,   \* this.required: engine -> module handle (Load Cache)
  installed,  \* this.installed: extname -> engine (Resolution Cache)
  attempts,   \* number of node require(engine) acquisitions made so far
  last        \* the call that just completed and its outcome

vars == <<disk, required, installed, attempts, last>>

\* Object.create(null)
EmptyObject == [k \in {} |-> TRUE]

\* ------------------------------------------------------------ path helpers
\* Index of the last occurrence of c in s, 0 when there is none.
RECURSIVE LastIndexOf(_, _)
LastIndexOf(s, c) ==
  IF s = <<>> THEN 0
  ELSE IF s[Len(s)] = c THEN Len(s)
  ELSE LastIndexOf(SubSeq(s, 1, Len(s) - 1), c)

\* path.basename(file)
basename(file) == SubSeq(file, LastIndexOf(file, "/") + 1, Len(file))

\* path.extname(file): from the last dot of the last path segment to the
\* end; empty when there is no dot or the dot starts the segment.
extname(file) ==
  LET b == basename(file)
      i == LastIndexOf(b, ".")
  IN IF i <= 1 THEN <<>> ELSE SubSeq(b, i, Len(b))

\* ----------------------------------------------------------- small helpers
\* obj[k] = v on a JavaScript object held as a function.
Put(obj, k, v) == (k :> v) @@ obj

\* Array.prototype.join as a sequence of tokens: the elements with the
\* separator between each two.
RECURSIVE Join(_, _)
Join(list, sep) ==
  IF list = <<>> THEN <<>>
  ELSE IF Len(list) = 1 THEN <<list[1]>>
  ELSE <<list[1], sep>> \o Join(Tail(list), sep)

NoError == [type |-> "none", message |-> <<>>]

\* new Error('The '+ engine +' module isnt installed. Run npm install --save '+ engine)
NotInstalledError(engine) ==
  [type |-> "BackendNotInstalled",
   message |-> <<"The ", engine,
                 " module isnt installed. Run npm install --save ", engine>>]

\* new Error('Unknown file extensions, cannot detect template engine.')
UnknownExtensionError ==
  [type |-> "UnknownExtension",
   message |-> <<"Unknown file extensions, cannot detect template engine.">>]

NoEngineErrorLast(list) == NotInstalledError(list[Len(list)])

\* new Error('No valid template engine installed, please install '+ list.join('or'))
NoEngineError(list) ==
  [type |-> "NoBackendAvailable",
   message |-> <<"No valid template engine installed, please install ">>
                 \o Join(list, "or")]

\* The error node raises when a module cannot be found by require.resolve.
ModuleNotFoundError(engine) ==
  [type |-> "MODULE_NOT_FOUND", message |-> <<"Cannot find module ", engine>>]

\* The module object node's require(engine) hands back.
Module(engine) == [module |-> engine]

\* ------------------------------------------------------------ the Loader
\* Temper.prototype.require, as a function of the require cache and of what
\* is installed.  acquired counts the node require(engine) calls it made.
RequiresCachesFailure(req, dsk, engine) ==
  IF engine \in DOMAIN req
    THEN [status |-> "ok", value |-> req[engine], err |-> NoError,
          required |-> req, acquired |-> 0]
  ELSE IF engine \in dsk
    THEN [status |-> "ok", value |-> Module(engine), err |-> NoError,
          required |-> Put(req, engine, Module(engine)), acquired |-> 1]
  ELSE [status |-> "throw", value |-> Module(""),
        err |-> NotInstalledError(engine),
        required |-> Put(req, engine, Module("")), acquired |-> 1]

RequiresNoCache(req, dsk, engine) ==
  IF engine \in dsk
    THEN [status |-> "ok", value |-> Module(engine), err |-> NoError,
          required |-> Put(req, engine, Module(engine)), acquired |-> 1]
  ELSE [status |-> "throw", value |-> Module(""),
        err |-> NotInstalledError(engine),
        required |-> req, acquired |-> 1]

Requires(req, dsk, engine) ==
  IF engine \in DOMAIN req
    THEN [status |-> "ok", value |-> req[engine], err |-> NoError,
          required |-> req, acquired |-> 0]
  ELSE IF engine \in dsk
    THEN [status |-> "ok", value |-> Module(engine), err |-> NoError,
          required |-> Put(req, engine, Module(engine)), acquired |-> 1]
  ELSE [status |-> "throw", value |-> Module(""),
        err |-> NotInstalledError(engine),
        required |-> req, acquired |-> 1]

\* ------------------------------------------------------------- discovery
LookupDefault(ext) ==
  IF ext \in DOMAIN supported THEN supported[ext] ELSE <<"ejs">>

\* this.supported[extname]: the candidate list, <<>> standing for undefined.
Lookup(ext) == IF ext \in DOMAIN supported THEN supported[ext] ELSE <<>>

InInstalledNever(inst, ext) == FALSE

\* extname in this.installed
InInstalled(inst, ext) == ext \in DOMAIN inst

FilterStepRecordsFailure(st, engine, ext, dsk) ==
  LET r == Requires(st.required, dsk, engine)
  IN IF r.status = "throw"
       THEN [st EXCEPT !.acquired = @ + r.acquired,
                       !.installed = Put(st.installed, ext, engine)]
       ELSE [required |-> Put(r.required, engine, r.value),
             installed |-> Put(st.installed, ext, engine),
             found |-> Append(st.found, engine),
             acquired |-> st.acquired + r.acquired]

\* One call of the filter callback of discover on one engine.  st carries
\* temper.required, temper.installed, the engines kept so far and the
\* acquisitions made.
FilterStep(st, engine, ext, dsk) ==
  LET r == Requires(st.required, dsk, engine)
  IN IF r.status = "throw"
       THEN [st EXCEPT !.acquired = @ + r.acquired]
       ELSE [required |-> Put(r.required, engine, r.value),
             installed |-> Put(st.installed, ext, engine),
             found |-> Append(st.found, engine),
             acquired |-> st.acquired + r.acquired]

\* list.filter(...): the callback runs on every element, in order.
RECURSIVE Filter(_, _, _, _)
Filter(st, list, ext, dsk) ==
  IF list = <<>> THEN st
  ELSE Filter(FilterStep(st, Head(list), ext, dsk), Tail(list), ext, dsk)

FoundResultLast(found) == found[Len(found)]

\* if (found.length) return found[0];
FoundResult(found) == found[1]

\* Temper.prototype.discover on the caches req, inst with dsk installed.
DiscoverResult(req, inst, dsk, file) ==
  LET ext == extname(file)
      list == Lookup(ext)
      st == Filter([required |-> req, installed |-> inst,
                    found |-> <<>>, acquired |-> 0], list, ext, dsk)
  IN IF InInstalled(inst, ext)
       THEN [status |-> "ok", ret |-> inst[ext], err |-> NoError,
             required |-> req, installed |-> inst, acquired |-> 0]
     ELSE IF list = <<>>
       THEN [status |-> "throw", ret |-> "", err |-> UnknownExtensionError,
             required |-> req, installed |-> inst, acquired |-> 0]
     ELSE IF Len(st.found) > 0
       THEN [status |-> "ok", ret |-> FoundResult(st.found), err |-> NoError,
             required |-> st.required, installed |-> st.installed,
             acquired |-> st.acquired]
     ELSE [status |-> "throw", ret |-> "", err |-> NoEngineError(list),
           required |-> st.required, installed |-> st.installed,
           acquired |-> st.acquired]

\* ----------------------------------------------------------- compilation
\* Paths are sequences of segments.
\* The file node's require.resolve(engine) names: the module's main file
\* below its installation directory.
MainFile(engine) ==
  CASE engine = "hogan.js" -> <<"lib", "hogan.js">>
    [] engine = "handlebars" -> <<"lib", "index.js">>
    [] engine = "ejs" -> <<"lib", "ejs.js">>
    [] OTHER -> <<"index.js">>

resolve(engine) == <<"node_modules", engine>> \o MainFile(engine)

\* path.dirname
dirname(p) == SubSeq(p, 1, Len(p) - 1)

\* path.join(directory, ...segments): concatenate, and let each '..' cancel
\* the segment before it.
RECURSIVE normalize(_, _)
normalize(done, rest) ==
  IF rest = <<>> THEN done
  ELSE IF Head(rest) = ".." /\ done # <<>>
    THEN normalize(SubSeq(done, 1, Len(done) - 1), Tail(rest))
  ELSE normalize(Append(done, Head(rest)), Tail(rest))

join(directory, segments) == normalize(<<>>, directory \o segments)

\* this.read(library): the contents of the file at that path.
read(library) == <<"contents of">> \o library

Undefined == [kind |-> "undefined"]

\* compiler.compile(template, options) of the engine's own module.
native(compiler, entry, template, options) ==
  [kind |-> "native", module |-> compiler.module, entry |-> entry,
   template |-> template, options |-> options]

\* The engines whose case calls require.resolve(engine).
HasRuntime == {"hogan.js", "handlebars", "jade"}

LibraryPathNoParent(engine) ==
  CASE engine = "hogan.js" ->
         [defined |-> TRUE,
          path |-> join(dirname(resolve(engine)), <<"template.js">>)]
    [] engine = "handlebars" ->
         [defined |-> TRUE,
          path |-> join(dirname(resolve(engine)),
                        <<"dist", "handlebars.runtime.js">>)]
    [] engine = "jade" ->
         [defined |-> TRUE,
          path |-> join(dirname(resolve(engine)), <<"runtime.js">>)]
    [] OTHER -> [defined |-> FALSE, path |-> <<>>]

\* The library variable after the switch: a path, or undefined.
LibraryPath(engine) ==
  CASE engine = "hogan.js" ->
         [defined |-> TRUE,
          path |-> join(dirname(resolve(engine)), <<"template.js">>)]
    [] engine = "handlebars" ->
         [defined |-> TRUE,
          path |-> join(dirname(resolve(engine)),
                        <<"..", "dist", "handlebars.runtime.js">>)]
    [] engine = "jade" ->
         [defined |-> TRUE,
          path |-> join(dirname(resolve(engine)), <<"runtime.js">>)]
    [] OTHER -> [defined |-> FALSE, path |-> <<>>]

ServerDefaultCase(compiler, template, engine) ==
  CASE engine \in {"handlebars", "ejs", "jade"} ->
         native(compiler, "compile", template, {})
    [] OTHER ->
         [kind |-> "function", name |-> "render",
          of |-> native(compiler, "compile", template, {})]

ServerUnwrapped(compiler, template, engine) ==
  CASE engine \in DispatchSet -> native(compiler, "compile", template, {})
    [] OTHER -> Undefined

\* The server variable after the switch.
Server(compiler, template, engine) ==
  CASE engine = "hogan.js" ->
         [kind |-> "function", name |-> "render",
          of |-> native(compiler, "compile", template, {})]
    [] engine \in {"handlebars", "ejs", "jade"} ->
         native(compiler, "compile", template, {})
    [] OTHER -> Undefined

\* The client variable after the switch.
Client(compiler, template, engine, name) ==
  CASE engine = "hogan.js" ->
         [kind |-> "string", wrap |-> "hulk",
          of |-> native(compiler, "compile", template, {"asString"})]
    [] engine = "handlebars" -> native(compiler, "precompile", template, {})
    [] engine = "ejs" ->
         [kind |-> "string", function |-> name,
          of |-> native(compiler, "compile", template, {"client"})]
    [] engine = "jade" ->
         [kind |-> "string", function |-> name,
          of |-> native(compiler, "compile", template, {"client", "pretty"})]
    [] OTHER -> Undefined

\* What a backend's own compiled template renders for a data object.
Rendered(compiled, data) ==
  [status |-> "ok",
   value |-> [kind |-> "text", module |-> compiled.module,
              template |-> compiled.template, data |-> data]]

TypeError == [status |-> "throw", value |-> [kind |-> "TypeError"]]

\* compiler.compile(template) of hogan.js is a template object with a
\* render method; that of the other engines is itself a function.
IsTemplateObject(v) ==
  v.kind = "native" /\ v.module = "hogan.js" /\ v.entry = "compile"
    /\ v.options = {}

IsNativeFunction(v) ==
  v.kind = "native" /\ v.module # "hogan.js" /\ v.entry = "compile"
    /\ v.options = {}

\* template.render(data)
RenderMethod(v, data) ==
  IF IsTemplateObject(v) THEN Rendered(v, data) ELSE TypeError

\* v(data): the closure render of the hogan.js case calls
\* template.render(data); a native function renders; nothing else can be
\* called.
Call(v, data) ==
  IF v.kind = "function" THEN RenderMethod(v.of, data)
  ELSE IF IsNativeFunction(v) THEN Rendered(v, data)
  ELSE TypeError

\* Temper.prototype.compile on the require cache req with dsk installed.
\* require.resolve(engine) throws when the module is no longer installed.
CompileResult(req, dsk, template, engine, name) ==
  LET r == Requires(req, dsk, engine)
      library == LibraryPath(engine)
  IN IF r.status = "throw"
       THEN [status |-> "throw", ret |-> Undefined, err |-> r.err,
             required |-> r.required, acquired |-> r.acquired]
     ELSE IF engine \in HasRuntime /\ engine \notin dsk
       THEN [status |-> "throw", ret |-> Undefined,
             err |-> ModuleNotFoundError(engine),
             required |-> r.required, acquired |-> r.acquired]
     ELSE [status |-> "ok",
           ret |-> [library |-> IF library.defined THEN read(library.path)
                                ELSE <<>>,
                    client |-> Client(r.value, template, engine, name),
                    server |-> Server(r.value, template, engine)],
           err |-> NoError,
           required |-> r.required, acquired |-> r.acquired]

\* ------------------------------------------------------------ the machine
\* function Temper(): empty caches; nothing has been called yet.
Init ==
  /\ disk \in SUBSET Engines
  /\ required = EmptyObject
  /\ installed = EmptyObject
  /\ attempts = 0
  /\ last = [op |-> "new", arg |-> <<>>, status |-> "ok", ret |-> "",
             err |-> NoError, acquired |-> 0]

\* npm install engine, from outside the program.
Install(engine) ==
  /\ engine \notin disk
  /\ disk' = disk \cup {engine}
  /\ last' = [op |-> "npm", arg |-> <<>>, status |-> "ok", ret |-> "",
              err |-> NoError, acquired |-> 0]
  /\ UNCHANGED <<required, installed, attempts>>

\* npm uninstall engine, from outside the program.
Uninstall(engine) ==
  /\ engine \in disk
  /\ disk' = disk \ {engine}
  /\ last' = [op |-> "npm", arg |-> <<>>, status |-> "ok", ret |-> "",
              err |-> NoError, acquired |-> 0]
  /\ UNCHANGED <<required, installed, attempts>>

\* temper.require(engine)
Load(engine) ==
  LET r == Requires(required, disk, engine)
  IN /\ attempts + r.acquired <= MaxAttempts
     /\ required' = r.required
     /\ attempts' = attempts + r.acquired
     /\ last' = [op |-> "require", arg |-> engine, status |-> r.status,
                 ret |-> r.value, err |-> r.err,
                 acquired |-> r.acquired]
     /\ UNCHANGED <<disk, installed>>

\* temper.discover(file)
Discover(file) ==
  LET r == DiscoverResult(required, installed, disk, file)
  IN /\ attempts + r.acquired <= MaxAttempts
     /\ required' = r.required
     /\ installed' = r.installed
     /\ attempts' = attempts + r.acquired
     /\ last' = [op |-> "discover", arg |-> file, status |-> r.status,
                 ret |-> r.ret, err |-> r.err, acquired |-> r.acquired]
     /\ UNCHANGED disk

\* temper.compile(template, engine, name)
Compile(template, engine, name) ==
  LET r == CompileResult(required, disk, template, engine, name)
  IN /\ attempts + r.acquired <= MaxAttempts
     /\ required' = r.required
     /\ attempts' = attempts + r.acquired
     /\ last' = [op |-> "compile", arg |-> <<template, engine, name>>,
                 status |-> r.status, ret |-> r.ret, err |-> r.err,
                 acquired |-> r.acquired]
     /\ UNCHANGED <<disk, installed>>

\* result.server(data), on the result the last compile call returned.
CallServer(data) ==
  LET r == Call(last.ret.server, data)
  IN /\ last.op = "compile" /\ last.status = "ok"
     /\ last' = [op |-> "server", arg |-> <<last.arg[1], last.arg[2], data>>,
                 status |-> r.status, ret |-> r.value, err |-> NoError,
                 acquired |-> 0]
     /\ UNCHANGED <<disk, required, installed, attempts>>

Next ==
  \/ \E engine \in Engines : Install(engine)
  \/ \E engine \in Engines : Uninstall(engine)
  \/ \E engine \in Engines : Load(engine)
  \/ \E file \in Files : Discover(file)
  \/ \E template \in Templates, engine \in Engines, name \in Names :
       Compile(template, engine, name)

Spec == Init /\ [][Next]_vars

\* Compiling and rendering only, with more template sources.
NextRender ==
  \/ \E template \in RenderTemplates, engine \in Engines, name \in Names :
       Compile(template, engine, name)
  \/ \E data \in Data : CallServer(data)

SpecRender == Init /\ [][NextRender]_vars

\* ------------------------------------------------------------ properties
\* load(engine) would succeed now: cached, or acquirable.
Loadable(engine) == engine \in DOMAIN required \/ engine \in disk

\* The first element of list that satisfies Loadable, by position.
FirstLoadable(list) ==
  list[CHOOSE i \in 1..Len(list) :
         /\ Loadable(list[i])
         /\ \A j \in 1..(i - 1) : ~Loadable(list[j])]

Elements(list) == {list[i] : i \in 1..Len(list)}

\* The step just taken is the call temper.discover(file).
DiscoverStep(file) == last'.op = "discover" /\ last'.arg = file

\* The step just taken is the call temper.require(engine).
RequireStep(engine) == last'.op = "require" /\ last'.arg = engine

\* The step just taken is a call temper.compile(_, engine, _).
CompileStep(engine) == last'.op = "compile" /\ last'.arg[2] = engine

\* The engines an error message names.
Named(err) == {err.message[i] : i \in 1..Len(err.message)} \cap Engines

\* C1: a discover call for a registered extension with an installed
\* candidate and no Resolution Cache entry returns the first candidate, in
\* registry order, that can be loaded at that moment.
C1_FirstLoadableWins ==
  [][\A file \in Files :
       (/\ DiscoverStep(file)
        /\ extname(file) \in DOMAIN supported
        /\ extname(file) \notin DOMAIN installed
        /\ \E e \in Elements(supported[extname(file)]) : e \in disk)
       => /\ last'.status = "ok"
          /\ last'.ret = FirstLoadable(supported[extname(file)])]_vars

\* A discover call probed all three candidates and returned the second: the
\* load of the first failed and the third loaded as well.
C1_Witness ==
  /\ last.op = "discover" /\ last.status = "ok"
  /\ last.acquired = 3
  /\ last.ret = "mustache"
  /\ "handlebars" \in DOMAIN required
  /\ "hogan.js" \notin DOMAIN required

\* C2: the identifier a successful discover call leaves in the Resolution
\* Cache for the extension is the identifier the call returned (so the next
\* call, which answers from the cache, returns the same identifier).
C2_CacheHoldsReturned ==
  (last.op = "discover" /\ last.status = "ok")
    => installed[extname(last.arg)] = last.ret

\* C3: a discover call for an extension that has a Resolution Cache entry
\* returns that entry, makes no acquisition and changes no cache, whatever
\* is installed at that moment.
C3_CachedNoProbe ==
  [][\A file \in Files :
       (DiscoverStep(file) /\ extname(file) \in DOMAIN installed)
       => /\ last'.status = "ok"
          /\ last'.ret = installed[extname(file)]
          /\ attempts' = attempts
          /\ required' = required
          /\ installed' = installed]_vars

\* A discover call answered from the cache while a more-preferred candidate
\* that was never loaded is installed.
C3_Witness ==
  /\ last.op = "discover" /\ last.status = "ok" /\ last.acquired = 0
  /\ last.ret # "hogan.js"
  /\ extname(last.arg) = MUSTACHE
  /\ "hogan.js" \in disk /\ "hogan.js" \notin DOMAIN required

\* C4: a discover call for an extension that is not in the registry fails
\* with UnknownExtension, makes no acquisition and changes neither cache.
C4_UnknownExtension ==
  [][\A file \in Files :
       (DiscoverStep(file) /\ extname(file) \notin DOMAIN supported)
       => /\ last'.status = "throw"
          /\ last'.err.type = "UnknownExtension"
          /\ attempts' = attempts
          /\ required' = required
          /\ installed' = installed]_vars

\* discover has failed with UnknownExtension while modules were installed
\* and both caches were populated.
C4_Witness ==
  /\ last.op = "discover" /\ last.err.type = "UnknownExtension"
  /\ disk # {} /\ required # EmptyObject /\ installed # EmptyObject

\* C5 as stated: a discover call for a registered extension without a
\* Resolution Cache entry, all of whose candidates are uninstalled, fails
\* with NoBackendAvailable naming exactly the candidates and creates no
\* Resolution Cache entry.
C5_AllUninstalledFails ==
  [][\A file \in Files :
       (/\ DiscoverStep(file)
        /\ extname(file) \in DOMAIN supported
        /\ extname(file) \notin DOMAIN installed
        /\ \A e \in Elements(supported[extname(file)]) : e \notin disk)
       => /\ last'.status = "throw"
          /\ last'.err.type = "NoBackendAvailable"
          /\ Named(last'.err) = Elements(supported[extname(file)])
          /\ extname(file) \notin DOMAIN installed']_vars

\* C5 amended: the same, for candidates that are all uninstalled and all
\* absent from the Load Cache.
C5_NoneLoadableFails ==
  [][\A file \in Files :
       (/\ DiscoverStep(file)
        /\ extname(file) \in DOMAIN supported
        /\ extname(file) \notin DOMAIN installed
        /\ \A e \in Elements(supported[extname(file)]) : ~Loadable(e))
       => /\ last'.status = "throw"
          /\ last'.err.type = "NoBackendAvailable"
          /\ Named(last'.err) = Elements(supported[extname(file)])
          /\ installed' = installed
          /\ required' = required]_vars

\* discover has failed for .mustache after trying its three candidates.
C5_Witness ==
  /\ last.op = "discover" /\ last.status = "throw"
  /\ last.err.type = "NoBackendAvailable"
  /\ extname(last.arg) = MUSTACHE
  /\ last.acquired = 3

\* C6: a load of an identifier that is neither cached nor installed fails
\* with BackendNotInstalled naming it, after one acquisition attempt, and
\* leaves the Load Cache as it was; a load of an identifier that is not
\* cached and is installed makes one acquisition attempt, succeeds and
\* caches the handle it returns.
C6_FailedLoadNotCached ==
  [][\A engine \in Engines :
       (RequireStep(engine) /\ engine \notin DOMAIN required)
       => /\ attempts' = attempts + 1
          /\ IF engine \in disk
               THEN /\ last'.status = "ok"
                    /\ engine \in DOMAIN required'
                    /\ required'[engine] = last'.ret
               ELSE /\ last'.status = "throw"
                    /\ last'.err.type = "BackendNotInstalled"
                    /\ Named(last'.err) = {engine}
                    /\ required' = required]_vars

\* A load has failed again, after earlier acquisition attempts, and the
\* identifier is still not in the Load Cache.
C6_Witness ==
  /\ last.op = "require" /\ last.status = "throw"
  /\ last.err.type = "BackendNotInstalled"
  /\ last.arg \notin DOMAIN required
  /\ attempts >= 2 /\ required = EmptyObject

\* C7: no step removes a Resolution Cache entry or changes the identifier
\* it holds.
C7_ResolutionCacheStable ==
  [][\A ext \in DOMAIN installed :
       ext \in DOMAIN installed' /\ installed'[ext] = installed[ext]]_vars

\* A Resolution Cache entry has outlived the uninstallation of its module
\* and a later discover call for its extension.
C7_Witness ==
  /\ last.op = "discover" /\ last.status = "ok"
  /\ extname(last.arg) \in DOMAIN installed
  /\ installed[extname(last.arg)] \notin disk
  /\ \E e \in Elements(supported[extname(last.arg)]) :
       e \in disk /\ e \notin DOMAIN required

\* C8: a load of a cached identifier returns the cached handle, makes no
\* acquisition and changes no cache, installed or not.
C8_CachedLoad ==
  [][\A engine \in Engines :
       (RequireStep(engine) /\ engine \in DOMAIN required)
       => /\ last'.status = "ok"
          /\ last'.ret = required[engine]
          /\ attempts' = attempts
          /\ required' = required
          /\ installed' = installed]_vars

\* A load has returned the cached handle of a module that is no longer
\* installed.
C8_Witness ==
  /\ last.op = "require" /\ last.status = "ok" /\ last.acquired = 0
  /\ last.arg \notin disk

\* C9: a discover call for a registered extension either returns a
\* candidate or fails with NoBackendAvailable, never BackendNotInstalled,
\* and it fails exactly when no candidate can be loaded.
C9_LoadFailuresAbsorbed ==
  [][\A file \in Files :
       (DiscoverStep(file) /\ extname(file) \in DOMAIN supported)
       => /\ last'.err.type # "BackendNotInstalled"
          /\ last'.status = "throw" => last'.err.type = "NoBackendAvailable"
          /\ last'.status = "throw"
               <=> /\ extname(file) \notin DOMAIN installed
                   /\ \A e \in Elements(supported[extname(file)]) :
                        ~Loadable(e)
          /\ last'.status = "ok"
               => last'.ret \in Elements(supported[extname(file)])]_vars

\* discover has returned a candidate after the loads of two earlier
\* candidates failed.
C9_Witness ==
  /\ last.op = "discover" /\ last.status = "ok"
  /\ last.ret = "handlebars" /\ last.acquired = 3
  /\ DOMAIN required = {"handlebars"}

\* C10 as stated: compile with an identifier outside the dispatch set
\* returns library '', client and server undefined, and raises no error.
C10_UnknownEngineEmpty ==
  (last.op = "compile" /\ last.arg[2] \notin DispatchSet)
    => /\ last.status = "ok"
       /\ last.ret.library = <<>>
       /\ last.ret.client = Undefined
       /\ last.ret.server = Undefined

\* C10 amended: compile with an identifier outside the dispatch set returns
\* library '', client and server undefined when the identifier is in the
\* Load Cache or installed, and fails with BackendNotInstalled naming the
\* identifier otherwise.
C10_UnknownEngineEmptyIfLoadable ==
  [][\A engine \in Engines \ DispatchSet :
       CompileStep(engine)
       => IF Loadable(engine)
            THEN /\ last'.status = "ok"
                 /\ last'.ret.library = <<>>
                 /\ last'.ret.client = Undefined
                 /\ last'.ret.server = Undefined
            ELSE /\ last'.status = "throw"
                 /\ last'.err.type = "BackendNotInstalled"
                 /\ Named(last'.err) = {engine}]_vars

\* compile has returned the empty result for an identifier outside the
\* dispatch set.
C10_Witness ==
  /\ last.op = "compile" /\ last.status = "ok"
  /\ last.arg[2] \notin DispatchSet
  /\ last.ret.server = Undefined

\* What the backend's own compile of the template, rendered natively with
\* the data, gives: through .render(data) for hogan.js, by a direct call
\* for the others.
NativeRender(engine, template, data) ==
  IF engine = "hogan.js"
    THEN RenderMethod(native(Module(engine), "compile", template, {}), data)
    ELSE Call(native(Module(engine), "compile", template, {}), data)

\* C11: for every backend of the dispatch set, calling the server function
\* compile returned with a data object gives what the backend's own compile
\* of the same source renders natively with that data.
C11_RoundTrip ==
  (last.op = "server" /\ last.arg[2] \in DispatchSet)
    => /\ last.status = "ok"
       /\ last.status = NativeRender(last.arg[2], last.arg[1], last.arg[3]).status
       /\ last.ret = NativeRender(last.arg[2], last.arg[1], last.arg[3]).value

\* The server function of a hogan.js compile has rendered the second
\* template with the second data object.
C11_Witness ==
  /\ last.op = "server" /\ last.status = "ok"
  /\ last.arg = <<"tpl2", "hogan.js", "data2">>
  /\ last.ret.kind = "text"

\* The position in list of its first element that satisfies Loadable.
FirstLoadableIndex(list) ==
  CHOOSE i \in 1..Len(list) :
    /\ Loadable(list[i])
    /\ \A j \in 1..(i - 1) : ~Loadable(list[j])

\* C12: a discover call that probes stops at the first candidate that
\* loads: it makes no acquisition for a later candidate, adds no later
\* candidate to the Load Cache and writes the first loadable candidate, not
\* a later one, to the Resolution Cache.
C12_StopsAtFirstSuccess ==
  [][\A file \in Files :
       (/\ DiscoverStep(file)
        /\ extname(file) \in DOMAIN supported
        /\ extname(file) \notin DOMAIN installed
        /\ \E e \in Elements(supported[extname(file)]) : Loadable(e))
       => LET list == supported[extname(file)]
          IN /\ attempts' - attempts <= FirstLoadableIndex(list)
             /\ (DOMAIN required') \ (DOMAIN required) \subseteq {FirstLoadable(list)}
             /\ installed'[extname(file)] = FirstLoadable(list)]_vars

\* Every identifier of some candidate list of the registry.
RegistryIdentifiers ==
  UNION {Elements(supported[ext]) : ext \in DOMAIN supported}

\* C13: every identifier discover returns is a case of compile's switch,
\* and a compile call with a registry identifier that returns gives a
\* callable server.
C13_DiscoveredIsDispatchable ==
  /\ (last.op = "discover" /\ last.status = "ok")
       => last.ret \in DispatchSet
  /\ (last.op = "compile" /\ last.status = "ok"
        /\ last.arg[2] \in RegistryIdentifiers)
       => last.ret.server # Undefined

\* The runtime file of each backend that ships one, below node_modules.
RuntimeFile(engine) ==
  CASE engine = "hogan.js" -> <<"node_modules", "hogan.js", "lib", "template.js">>
    [] engine = "handlebars" ->
         <<"node_modules", "handlebars", "dist", "handlebars.runtime.js">>
    [] engine = "jade" -> <<"node_modules", "jade", "runtime.js">>

LowerChar(c) ==
  CASE c = "E" -> "e" [] c = "J" -> "j" [] c = "S" -> "s" [] OTHER -> c

LowerCase(str) == [i \in 1..Len(str) |-> LowerChar(str[i])]

\* C15: a discover call gives, for a file, the outcome it would give in the
\* same state for any file whose extension differs only in letter case.
C15_CaseInsensitiveExtension ==
  [][\A file \in Files, other \in Files :
       (/\ DiscoverStep(file)
        /\ LowerCase(extname(file)) = LowerCase(extname(other)))
       => LET r == DiscoverResult(required, installed, disk, other)
          IN /\ last'.status = r.status
             /\ last'.ret = r.ret
             /\ last'.err.type = r.err.type]_vars

\* C16: a compile call with a backend of the dispatch set that is neither
\* in the Load Cache nor installed fails with BackendNotInstalled naming
\* it, returns nothing and leaves both caches as they were.
C16_CompileNotInstalled ==
  [][\A engine \in DispatchSet :
       (CompileStep(engine) /\ ~Loadable(engine))
       => /\ last'.status = "throw"
          /\ last'.err.type = "BackendNotInstalled"
          /\ Named(last'.err) = {engine}
          /\ last'.ret = Undefined
          /\ required' = required
          /\ installed' = installed]_vars

\* compile has failed with BackendNotInstalled while other modules were in
\* the Load Cache.
C16_Witness ==
  /\ last.op = "compile" /\ last.status = "throw"
  /\ last.err.type = "BackendNotInstalled"
  /\ last.arg[2] \in DispatchSet
  /\ last.arg[2] \notin DOMAIN required
  /\ required # EmptyObject

\* C17: every Resolution Cache entry holds a candidate of its extension's
\* registry list that has a Load Cache entry.
C17_ResolvedIsCandidateAndLoaded ==
  \A ext \in DOMAIN installed :
    /\ ext \in DOMAIN supported
    /\ installed[ext] \in Elements(supported[ext])
    /\ installed[ext] \in DOMAIN required

\* The Resolution Cache holds an entry for .mustache and one for another
\* extension, after the modules were uninstalled.
C17_Witness ==
  /\ MUSTACHE \in DOMAIN installed
  /\ Cardinality(DOMAIN installed) >= 2
  /\ disk = {}

\* C18: an identifier a discover call returns is in the Load Cache, the
\* Load Cache never loses an entry, and a compile call with an identifier
\* of the Load Cache does not fail with BackendNotInstalled and makes no
\* acquisition.
C18_DiscoveredStaysLoaded ==
  [][/\ (last'.op = "discover" /\ last'.status = "ok")
          => last'.ret \in DOMAIN required'
     /\ \A e \in DOMAIN required :
          e \in DOMAIN required' /\ required'[e] = required[e]
     /\ \A engine \in DOMAIN required :
          CompileStep(engine)
          => /\ last'.err.type # "BackendNotInstalled"
             /\ attempts' = attempts]_vars

\* compile has returned for the identifier discover resolved for .ejs after
\* every module was uninstalled.
C18_Witness ==
  /\ last.op = "compile" /\ last.status = "ok" /\ last.acquired = 0
  /\ EJS \in DOMAIN installed
  /\ last.arg[2] = installed[EJS]
  /\ disk = {}

\* C19: a compile call leaves the Resolution Cache as it was; it adds the
\* Load Cache entry of its identifier when that identifier was not cached
\* and is installed, and leaves the Load Cache as it was otherwise.
C19_CompileFrame ==
  [][\A engine \in Engines :
       CompileStep(engine)
       => /\ installed' = installed
          /\ IF engine \notin DOMAIN required /\ engine \in disk
               THEN /\ DOMAIN required' = DOMAIN required \cup {engine}
                    /\ \A e \in DOMAIN required : required'[e] = required[e]
               ELSE required' = required]_vars

\* compile has loaded its module while both caches held other entries.
C19_Witness ==
  /\ last.op = "compile" /\ last.status = "ok" /\ last.acquired = 1
  /\ installed # EmptyObject
  /\ Cardinality(DOMAIN required) >= 2

====
